---- MODULE Spec2Model ----
(***************************************************************************)
(* Account security state machine of core_apps/user_auth/models.py (User): *)
(* OTP issuance and verification, failed-login tracking, lockout and the   *)
(* lazy lockout expiry, with the persisted row and the lockout e-mail.     *)
(*                                                                         *)
(* Optional values (Django null=True fields, Python None) are sequences of *)
(* length at most one: None is <<>> and a value x is <<x>>.  Time is a     *)
(* discrete clock; every method call is instantaneous at the time `now`.   *)
(***************************************************************************)
EXTENDS Integers, Sequences, FiniteSets, TLC

\* ------------------------------------------------------------------ bounds
\* Last instant of the clock.
MaxTime == 6
\* The failed-login counter is not driven past this value.
MaxAttempts == 5
\* Requests served in a run of the concurrent specification.
MaxRequests == 4
\* Words in a school name.
MaxWords == 2

\* ---------------------------------------------------------------- settings
\* settings.OTP_EXPIRY_TIME, settings.MAX_FAILED_LOGIN_ATTEMPTS and
\* settings.LOCKOUT_DURATION, in clock ticks.
OTP_EXPIRY_TIME == 2
MAX_FAILED_LOGIN_ATTEMPTS == 3
LOCKOUT_DURATION == 2

\* ------------------------------------------------------------------ values
None == <<>>
Some(x) == <<x>>
Value(o) == o[1]

\* AccountStatus.ACTIVE / AccountStatus.LOCKED
ACTIVE == "ACTIVE"
LOCKED == "LOCKED"

\* The OTP strings a caller passes: two 6-digit codes and the empty string
\* (the otp field is a CharField with blank=True).
Codes == {"", "483920", "111111"}
\* Arguments of verify_otp: any of the strings, or Python None.
Candidates == {None} \cup {Some(c) : c \in Codes}

VARIABLES
    user,    \* the in-memory User instance (its security fields)
    db,      \* the persisted row of that user, as written by save()
    now,     \* timezone.now()
    call,    \* the latest method call: name, argument, time, outcome, effects
    issued,  \* history: the latest set_otp (code, time, overwritten otp, uses)
    streak,  \* history: consecutive handle_failed_login_attempts calls made
             \* on a record that started ACTIVE/0/None, or -1
    lock,    \* history: while LOCKED, the time of the failure that locked
             \* the account and the time of the latest failure
    inst,    \* concurrent requests: each request's own User instance
    pc,      \* concurrent requests: where each request stands
    tally,   \* history of the concurrent requests: requests started,
             \* handle_failed_login_attempts calls returned, lockout e-mails
             \* sent, verify_otp calls that returned True since the last
             \* set_otp, whether any OTP call was made
    school_name,  \* getenv("SCHOOL_NAME"), a sequence of characters
    username      \* the latest result of generate_username, or None

\* The state of the concurrent requests.
cvars == <<inst, pc, tally>>
\* The state of the single instance and its history.
svars == <<user, call, issued, streak, lock>>

\* The state of the user manager.
nvars == <<school_name, username>>

vars == <<user, db, now, call, issued, streak, lock, inst, pc, tally,
          school_name, username>>

\* The authentication requests that run concurrently for one identity.
Reqs == {1, 2}

\* ---------------------------------------------------------- generate_username
\* Two words of a school name, as sequences of characters.
Outshine == <<"O", "u", "t", "s", "h", "i", "n", "e">>
School == <<"s", "c", "h", "o", "o", "l">>
Words == {Outshine, School}

\* words joined by single spaces
RECURSIVE Join(_)
Join(ws) ==
    IF Len(ws) = 1 THEN ws[1]
    ELSE ws[1] \o <<" ">> \o Join(Tail(ws))

\* The values of SCHOOL_NAME: one to MaxWords words.
SchoolNames ==
    { Join(ws) : ws \in UNION { [1..n -> Words] : n \in 1..MaxWords } }

\* str.split(): the maximal runs of non-blank characters of s from position
\* i on, `cur` being the run under way.
RECURSIVE SplitFrom(_, _, _)
SplitFrom(s, i, cur) ==
    IF i > Len(s) THEN (IF cur = <<>> THEN <<>> ELSE <<cur>>)
    ELSE IF s[i] = " "
         THEN (IF cur = <<>> THEN <<>> ELSE <<cur>>) \o SplitFrom(s, i + 1, <<>>)
    ELSE SplitFrom(s, i + 1, Append(cur, s[i]))

Split(s) == SplitFrom(s, 1, <<>>)

\* str.upper() of one character, for the letters that begin a word here.
Upper(c) ==
    IF c = "o" THEN "O" ELSE IF c = "s" THEN "S" ELSE c

\* prefix = "".join([word[0] for word in words]).upper()
Prefix(words) == [i \in 1..Len(words) |-> Upper(words[i][1])]

\* remaining_length = 16 - len(prefix) - 1
RemainingLength(prefix) == 16 - Len(prefix) - 1

\* string.ascii_uppercase + string.digits, cut down to a letter and a digit.
Population == {"A", "7"}

\* random.choices(population, k=k): every list of k picks; no pick when k
\* is not positive.
Choices(k) == IF k > 0 THEN [1..k -> Population] ELSE {<<>>}

\* username = f"{prefix}--{random_chars}", for the picks random_chars.
generate_username(random_chars) ==
    Prefix(Split(school_name)) \o <<"-", "-">> \o random_chars

\* Field defaults of a newly created User (models.py 117-157).
NewUser ==
    [ otp                   |-> None,
      otp_expiry_time       |-> None,
      failed_login_attempts |-> 0,
      last_failed_login     |-> None,
      account_status        |-> ACTIVE ]

\* What a method call does: the instance afterwards, what it returned
\* ("None", "True", "False") or raised ("TypeError"), the rows written by its
\* save() calls in order, and the number of lockout e-mails it sent.
Effect(self, ret, saved, mails) ==
    [ self |-> self, ret |-> ret, saved |-> saved, mails |-> mails ]

\* ----------------------------------------------------------------- methods
\* Mutant of set_otp: a pending OTP's expiry time is kept instead of renewed.
set_otp_keeps_expiry(self, otp) ==
    LET s1 == [self EXCEPT !.otp = Some(otp),
                           !.otp_expiry_time =
                               IF @ = None THEN Some(now + OTP_EXPIRY_TIME)
                               ELSE @]
    IN  Effect(s1, "None", <<s1>>, 0)

\* set_otp: stores the code and its expiry time, then saves.
set_otp(self, otp) ==
    LET s1 == [self EXCEPT !.otp = Some(otp),
                           !.otp_expiry_time = Some(now + OTP_EXPIRY_TIME)]
    IN  Effect(s1, "None", <<s1>>, 0)

\* Mutant of OtpCheck: the expiry instant itself still counts as valid (>=).
OtpCheck_inclusive(self, otp) ==
    IF self.otp # otp THEN "False"
    ELSE IF self.otp_expiry_time = None THEN "TypeError"
    ELSE IF Value(self.otp_expiry_time) >= now THEN "True"
    ELSE "False"

\* The condition of verify_otp, `self.otp == otp and self.otp_expiry_time >
\* timezone.now()`: `and` short-circuits on a mismatch; comparing None with a
\* datetime raises TypeError.
OtpCheck(self, otp) ==
    IF self.otp # otp THEN "False"
    ELSE IF self.otp_expiry_time = None THEN "TypeError"
    ELSE IF Value(self.otp_expiry_time) > now THEN "True"
    ELSE "False"

\* Mutant of verify_otp: a successful verification does not clear the OTP.
verify_otp_keeps_otp(self, otp) ==
    IF OtpCheck(self, otp) = "True" THEN Effect(self, "True", <<self>>, 0)
    ELSE Effect(self, OtpCheck(self, otp), <<>>, 0)

\* Mutant of verify_otp: an expired OTP is cleared when it is presented.
verify_otp_clears_expired(self, otp) ==
    LET c == OtpCheck(self, otp)
        s1 == [self EXCEPT !.otp = Some(""), !.otp_expiry_time = None]
    IN  IF c = "True" THEN Effect(s1, "True", <<s1>>, 0)
        ELSE IF c = "False" /\ self.otp = otp THEN Effect(s1, "False", <<s1>>, 0)
        ELSE Effect(self, c, <<>>, 0)

\* verify_otp: on a match before expiry clears the OTP ("" and None), saves
\* and returns True; otherwise returns False (or propagates the TypeError).
verify_otp(self, otp) ==
    LET c == OtpCheck(self, otp)
        s1 == [self EXCEPT !.otp = Some(""), !.otp_expiry_time = None]
    IN  IF c = "True" THEN Effect(s1, "True", <<s1>>, 0)
        ELSE Effect(self, c, <<>>, 0)

\* Mutant of ThresholdReached: locks only past the threshold (>).
ThresholdReached_strict(n) == n > MAX_FAILED_LOGIN_ATTEMPTS

\* Mutant of ThresholdReached: locks one failure early (off by one).
ThresholdReached_early(n) == n + 1 >= MAX_FAILED_LOGIN_ATTEMPTS

\* `self.failed_login_attempts >= settings.MAX_FAILED_LOGIN_ATTEMPTS`
ThresholdReached(n) == n >= MAX_FAILED_LOGIN_ATTEMPTS

\* Mutant of handle_failed_login_attempts: a failure on a LOCKED account does
\* not move last_failed_login (the lockout window does not slide).
handle_failed_login_attempts_fixed_window(self) ==
    LET s1 == [self EXCEPT !.failed_login_attempts = @ + 1,
                           !.last_failed_login =
                               IF self.account_status = LOCKED THEN @
                               ELSE Some(now)]
        s2 == [s1 EXCEPT !.account_status = LOCKED]
    IN  IF ThresholdReached(s1.failed_login_attempts)
        THEN Effect(s2, "None", <<s2, s2>>, 1)
        ELSE Effect(s1, "None", <<s1>>, 0)

\* Mutant of handle_failed_login_attempts: the first save() comes before the
\* status is set, so the row holds the new counter with the old status.
handle_failed_login_attempts_early_save(self) ==
    LET s1 == [self EXCEPT !.failed_login_attempts = @ + 1,
                           !.last_failed_login = Some(now)]
        s2 == [s1 EXCEPT !.account_status = LOCKED]
    IN  IF ThresholdReached(s1.failed_login_attempts)
        THEN Effect(s2, "None", <<s1, s2>>, 1)
        ELSE Effect(s1, "None", <<s1>>, 0)

\* handle_failed_login_attempts: counts the failure and stamps it; at or over
\* the threshold sets LOCKED, saves and sends the e-mail; always saves last.
handle_failed_login_attempts(self) ==
    LET s1 == [self EXCEPT !.failed_login_attempts = @ + 1,
                           !.last_failed_login = Some(now)]
        s2 == [s1 EXCEPT !.account_status = LOCKED]
    IN  IF ThresholdReached(s1.failed_login_attempts)
        THEN Effect(s2, "None", <<s2, s2>>, 1)
        ELSE Effect(s1, "None", <<s1>>, 0)

\* Mutant of reset_failed_login_attempts: last_failed_login is not cleared.
reset_failed_login_attempts_keeps_stamp(self) ==
    LET s1 == [self EXCEPT !.failed_login_attempts = 0,
                           !.account_status = ACTIVE]
    IN  Effect(s1, "None", <<s1>>, 0)

\* reset_failed_login_attempts: clears the counters, sets ACTIVE, saves.
reset_failed_login_attempts(self) ==
    LET s1 == [self EXCEPT !.failed_login_attempts = 0,
                           !.last_failed_login = None,
                           !.account_status = ACTIVE]
    IN  Effect(s1, "None", <<s1>>, 0)

\* Mutant of unlock_account: the failure counter is not reset.
unlock_account_keeps_counter(self) ==
    LET s1 == [self EXCEPT !.account_status = ACTIVE,
                           !.last_failed_login = None]
    IN  IF self.account_status = LOCKED
        THEN Effect(s1, "None", <<s1>>, 0)
        ELSE Effect(self, "None", <<>>, 0)

\* Mutant of unlock_account: the LOCKED check is missing.
unlock_account_unguarded(self) ==
    LET s1 == [self EXCEPT !.account_status = ACTIVE,
                           !.failed_login_attempts = 0,
                           !.last_failed_login = None]
    IN  Effect(s1, "None", <<s1>>, 0)

\* unlock_account: only when LOCKED, sets ACTIVE, clears the counters, saves.
unlock_account(self) ==
    LET s1 == [self EXCEPT !.account_status = ACTIVE,
                           !.failed_login_attempts = 0,
                           !.last_failed_login = None]
    IN  IF self.account_status = LOCKED
        THEN Effect(s1, "None", <<s1>>, 0)
        ELSE Effect(self, "None", <<>>, 0)

\* Mutant of LockoutExpired: the subtraction is the wrong way round.
LockoutExpired_reversed(self) ==
    /\ self.last_failed_login # None
    /\ Value(self.last_failed_login) - now > LOCKOUT_DURATION

\* Mutant of LockoutExpired: the lockout ends at LOCKOUT_DURATION (>=).
LockoutExpired_inclusive(self) ==
    /\ self.last_failed_login # None
    /\ now - Value(self.last_failed_login) >= LOCKOUT_DURATION

\* `self.last_failed_login and (timezone.now() - self.last_failed_login) >
\* settings.LOCKOUT_DURATION`: None is falsy.
LockoutExpired(self) ==
    /\ self.last_failed_login # None
    /\ now - Value(self.last_failed_login) > LOCKOUT_DURATION

\* Mutant of is_locked_out: the check of an ACTIVE account resets its counters.
is_locked_out_resets_active(self) ==
    IF self.account_status = LOCKED
    THEN IF LockoutExpired(self)
         THEN LET e == unlock_account(self)
              IN  Effect(e.self, "False", e.saved, e.mails)
         ELSE Effect(self, "True", <<>>, 0)
    ELSE LET e == reset_failed_login_attempts(self)
         IN  Effect(e.self, "False", e.saved, e.mails)

\* is_locked_out (a property): a LOCKED account whose lockout has expired is
\* unlocked by the read, which then returns False.
is_locked_out(self) ==
    IF self.account_status = LOCKED
    THEN IF LockoutExpired(self)
         THEN LET e == unlock_account(self)
              IN  Effect(e.self, "False", e.saved, e.mails)
         ELSE Effect(self, "True", <<>>, 0)
    ELSE Effect(self, "False", <<>>, 0)

\* ----------------------------------------------------------------- history
\* The counters of a record on which no failure is counted.
Fresh(u) ==
    /\ u.account_status = ACTIVE
    /\ u.failed_login_attempts = 0
    /\ u.last_failed_login = None

\* save() writes the instance's fields to the row: the row afterwards is the
\* last one written.
Persist(e) == IF e.saved = <<>> THEN db ELSE e.saved[Len(e.saved)]

\* A call of method `op` with argument `arg` and effect e, made now.
Apply(op, arg, e) ==
    /\ user' = e.self
    /\ db' = Persist(e)
    /\ call' = [ op |-> op, arg |-> arg, at |-> now, ret |-> e.ret,
                 saves |-> Len(e.saved), mails |-> e.mails ]
    /\ now' = now
    /\ lock' =
         IF e.self.account_status # LOCKED THEN None
         ELSE IF user.account_status # LOCKED
              THEN Some([ at |-> now, last |-> now ])
         ELSE IF op = "handle_failed_login_attempts"
              THEN Some([Value(lock) EXCEPT !.last = now])
         ELSE lock
    /\ UNCHANGED <<cvars, nvars>>

\* ----------------------------------------------------------------- actions
SetOtp ==
    \E otp \in Codes :
        /\ Apply("set_otp", Some(otp), set_otp(user, otp))
        /\ issued' = Some([ otp |-> otp, at |-> now, prior |-> user.otp,
                            tries |-> 0 ])
        /\ streak' = IF Fresh(user) THEN 0 ELSE -1

VerifyOtp ==
    \E otp \in Candidates :
        /\ Apply("verify_otp", otp, verify_otp(user, otp))
        /\ issued' =
             IF /\ issued # None
                /\ otp = Some(Value(issued).otp)
                /\ now < Value(issued).at + OTP_EXPIRY_TIME
                /\ Value(issued).tries < 2
             THEN Some([Value(issued) EXCEPT !.tries = @ + 1])
             ELSE issued
        /\ streak' = IF Fresh(user) THEN 0 ELSE -1

HandleFailedLoginAttempts ==
    /\ user.failed_login_attempts < MaxAttempts
    /\ Apply("handle_failed_login_attempts", None,
             handle_failed_login_attempts(user))
    /\ streak' = IF streak >= 0 THEN streak + 1 ELSE -1
    /\ UNCHANGED issued

ResetFailedLoginAttempts ==
    /\ Apply("reset_failed_login_attempts", None,
             reset_failed_login_attempts(user))
    /\ streak' = 0
    /\ UNCHANGED issued

UnlockAccount ==
    /\ Apply("unlock_account", None, unlock_account(user))
    /\ streak' = IF Fresh(user') THEN 0 ELSE -1
    /\ UNCHANGED issued

IsLockedOut ==
    /\ Apply("is_locked_out", None, is_locked_out(user))
    /\ streak' = IF Fresh(user') THEN 0 ELSE -1
    /\ UNCHANGED issued

\* The clock advances; nothing else changes with it.
Tick ==
    /\ now < MaxTime
    /\ now' = now + 1
    /\ UNCHANGED <<user, db, call, issued, streak, lock>>
    /\ UNCHANGED <<cvars, nvars>>

\* The record and the requests before any call.
NoCalls ==
    /\ user = NewUser
    /\ db = NewUser
    /\ now = 0
    /\ call = [ op |-> "create", arg |-> None, at |-> 0, ret |-> "None",
                saves |-> 1, mails |-> 0 ]
    /\ issued = None
    /\ streak = 0
    /\ lock = None
    /\ inst = [r \in Reqs |-> NewUser]
    /\ pc = [r \in Reqs |-> "idle"]
    /\ tally = [ started |-> 0, calls |-> 0, mails |-> 0, accepted |-> 0,
                 otpcalls |-> FALSE ]

Init ==
    /\ NoCalls
    /\ school_name = Join(<<Outshine, School>>)
    /\ username = None

Next ==
    \/ SetOtp
    \/ VerifyOtp
    \/ HandleFailedLoginAttempts
    \/ ResetFailedLoginAttempts
    \/ UnlockAccount
    \/ IsLockedOut
    \/ Tick

Spec == Init /\ [][Next]_vars

\* The lockout calls without an explicit unlock_account or
\* reset_failed_login_attempts (and without the OTP calls, which neither read
\* nor write the lockout fields), with a clock that keeps advancing and an
\* is_locked_out check that keeps being made.
LiveNext ==
    \/ HandleFailedLoginAttempts
    \/ IsLockedOut
    \/ Tick

LiveSpec ==
    Init /\ [][LiveNext]_vars /\ WF_vars(Tick) /\ WF_vars(IsLockedOut)

\* ------------------------------------------------------ concurrent requests
\* A request loads the record by key into an instance of its own.
Load(r) ==
    /\ pc[r] = "idle"
    /\ tally.started < MaxRequests
    /\ inst' = [inst EXCEPT ![r] = db]
    /\ pc' = [pc EXCEPT ![r] = "loaded"]
    /\ tally' = [tally EXCEPT !.started = @ + 1]
    /\ UNCHANGED <<db, now>>
    /\ UNCHANGED <<svars, nvars>>

\* The request calls set_otp on its instance: assignment and save().
ReqSetOtp(r) ==
    \E otp \in Codes :
        LET e == set_otp(inst[r], otp) IN
        /\ pc[r] = "loaded"
        /\ inst' = [inst EXCEPT ![r] = e.self]
        /\ db' = e.saved[Len(e.saved)]
        /\ pc' = [pc EXCEPT ![r] = "idle"]
        /\ tally' = [tally EXCEPT !.accepted = 0, !.otpcalls = TRUE]
        /\ UNCHANGED now
        /\ UNCHANGED <<svars, nvars>>

\* The request calls verify_otp on its instance: the test, and on success
\* the assignments and save().
ReqVerifyOtp(r) ==
    \E otp \in Candidates :
        LET e == verify_otp(inst[r], otp) IN
        /\ pc[r] = "loaded"
        /\ inst' = [inst EXCEPT ![r] = e.self]
        /\ db' = IF e.saved = <<>> THEN db ELSE e.saved[Len(e.saved)]
        /\ pc' = [pc EXCEPT ![r] = "idle"]
        /\ tally' = [tally EXCEPT
                         !.accepted = IF e.ret = "True" THEN @ + 1 ELSE @,
                         !.otpcalls = TRUE]
        /\ UNCHANGED now
        /\ UNCHANGED <<svars, nvars>>

\* The request calls handle_failed_login_attempts on its instance, first
\* part (lines 213-217): the assignments and, at the threshold, the first
\* save() before the e-mail.
ReqFailBegin(r) ==
    LET e == handle_failed_login_attempts(inst[r]) IN
    /\ pc[r] = "loaded"
    /\ inst' = [inst EXCEPT ![r] = e.self]
    /\ db' = IF Len(e.saved) > 1 THEN e.saved[1] ELSE db
    /\ pc' = [pc EXCEPT ![r] = IF e.mails > 0 THEN "notify" ELSE "save"]
    /\ UNCHANGED <<now, tally>>
    /\ UNCHANGED <<svars, nvars>>

\* Line 218: send_account_locked_email(self); a failure of email.send() is
\* caught and logged there, and the call returns either way.
ReqNotify(r) ==
    /\ pc[r] = "notify"
    /\ pc' = [pc EXCEPT ![r] = "save"]
    /\ tally' = [tally EXCEPT !.mails = @ + 1]
    /\ UNCHANGED <<db, now, inst>>
    /\ UNCHANGED <<svars, nvars>>

\* Line 219: the last save() of handle_failed_login_attempts, and its return.
ReqFailEnd(r) ==
    /\ pc[r] = "save"
    /\ db' = inst[r]
    /\ pc' = [pc EXCEPT ![r] = "idle"]
    /\ tally' = [tally EXCEPT !.calls = @ + 1]
    /\ UNCHANGED <<now, inst>>
    /\ UNCHANGED <<svars, nvars>>

ConcNext ==
    \E r \in Reqs :
        \/ Load(r)
        \/ ReqSetOtp(r)
        \/ ReqVerifyOtp(r)
        \/ ReqFailBegin(r)
        \/ ReqNotify(r)
        \/ ReqFailEnd(r)

ConcSpec == Init /\ [][ConcNext]_vars

\* ------------------------------------------------------------ user manager
\* The environment gives any of the school names; no username generated yet.
NameInit ==
    /\ NoCalls
    /\ school_name \in SchoolNames
    /\ username = None

\* The call of generate_username that _create_user makes for the user it
\* creates, with any outcome of random.choices.
GenerateUsername ==
    /\ username = None
    /\ \E random_chars \in Choices(RemainingLength(Prefix(Split(school_name)))) :
           username' = Some(generate_username(random_chars))
    /\ UNCHANGED <<school_name, db, now>>
    /\ UNCHANGED <<svars, cvars>>

NameNext == GenerateUsername

NameSpec == NameInit /\ [][NameNext]_vars

\* A step that is a call of method `op` (the clock stands still during it).
Called(op) == call'.op = op /\ now' = now

\* ------------------------------------------------------------------ claims
\* A 6-digit code, as generate_otp() produces and set_otp documents.
ValidOtp(c) == Len(c) = 6

\* The counters as reset_failed_login_attempts / unlock_account leave them.
Cleared(u) ==
    /\ u.failed_login_attempts = 0
    /\ u.last_failed_login = None
    /\ u.account_status = ACTIVE

\* C1: the lockout e-mail is sent exactly once per ACTIVE -> LOCKED
\* transition: a call of any method sends one e-mail when it takes the
\* account from ACTIVE to LOCKED and none otherwise; in particular
\* handle_failed_login_attempts on an already LOCKED account sends none.
C1_NotifyOncePerLockTransition ==
    [][ now' = now =>
          call'.mails = IF user.account_status = ACTIVE
                           /\ user'.account_status = LOCKED
                        THEN 1 ELSE 0 ]_vars

\* C2: OTP single use: after set_otp(code) with a 6-digit code and no later
\* set_otp, of the verify_otp(code) calls made within the TTL the first
\* returns True and every later one returns False.
C2_OtpSingleUse ==
    ( /\ call.op = "verify_otp"
      /\ issued # None
      /\ ValidOtp(Value(issued).otp)
      /\ call.arg = Some(Value(issued).otp)
      /\ call.at < Value(issued).at + OTP_EXPIRY_TIME )
    => /\ Value(issued).tries = 1 => call.ret = "True"
       /\ Value(issued).tries = 2 => call.ret = "False"

\* C2 witness: a second verify_otp of the issued code, within the TTL, was
\* refused.
C2_Witness ==
    /\ call.op = "verify_otp"
    /\ issued # None
    /\ ValidOtp(Value(issued).otp)
    /\ call.arg = Some(Value(issued).otp)
    /\ call.at < Value(issued).at + OTP_EXPIRY_TIME
    /\ Value(issued).tries = 2
    /\ call.ret = "False"

\* C3 as stated: verify_otp(candidate) returns True if and only if
\* candidate == otp and now <= otp_expiry (a correct code presented exactly
\* at the expiry instant is accepted).
C3_VerifyIffMatchAndNowLeqExpiry ==
    [][ Called("verify_otp") =>
          ( call'.ret = "True" <=>
              /\ call'.arg = user.otp
              /\ user.otp_expiry_time # None
              /\ now <= Value(user.otp_expiry_time) ) ]_vars

\* C3 amended: verify_otp(candidate) returns True if and only if
\* candidate == otp, an expiry time is stored and now < otp_expiry (strictly:
\* a correct code presented exactly at the expiry instant is rejected).
C3_VerifyIffMatchAndNowBeforeExpiry ==
    [][ Called("verify_otp") =>
          ( call'.ret = "True" <=>
              /\ call'.arg = user.otp
              /\ user.otp_expiry_time # None
              /\ now < Value(user.otp_expiry_time) ) ]_vars

\* C3 witness: the stored code was presented exactly at its expiry instant
\* and refused.
C3_Witness ==
    /\ call.op = "verify_otp"
    /\ call.ret = "False"
    /\ call.arg = user.otp
    /\ user.otp_expiry_time = Some(call.at)

\* C4: verify_otp never raises: every call returns True or False.
C4_VerifyNeverRaises ==
    call.op = "verify_otp" => call.ret \in {"True", "False"}

\* C5: after n consecutive handle_failed_login_attempts calls on a fresh
\* record (ACTIVE, no failures), failed_login_attempts is n,
\* last_failed_login is the time of the n-th call, and account_status is
\* ACTIVE when n < MAX_FAILED_LOGIN_ATTEMPTS and LOCKED otherwise.
C5_CountAndLockAtThreshold ==
    streak >= 0 =>
        /\ user.failed_login_attempts = streak
        /\ streak > 0 => /\ call.op = "handle_failed_login_attempts"
                         /\ user.last_failed_login = Some(call.at)
        /\ user.account_status =
              IF streak < MAX_FAILED_LOGIN_ATTEMPTS THEN ACTIVE ELSE LOCKED

\* C5 witness: one failure more than the threshold in a row; still LOCKED.
C5_Witness ==
    /\ streak = MAX_FAILED_LOGIN_ATTEMPTS + 1
    /\ user.account_status = LOCKED

\* C6: is_locked_out on a LOCKED record: when now - last_failed_login exceeds
\* LOCKOUT_DURATION it returns False and leaves the record (instance and
\* row) ACTIVE with the counter 0 and last_failed_login cleared; otherwise it
\* returns True and leaves the record LOCKED and unchanged.
C6_IsLockedOutResultAndEffect ==
    [][ (Called("is_locked_out") /\ user.account_status = LOCKED) =>
          IF now - Value(user.last_failed_login) > LOCKOUT_DURATION
          THEN /\ call'.ret = "False"
               /\ Cleared(user')
               /\ db' = user'
          ELSE /\ call'.ret = "True"
               /\ user'.account_status = LOCKED
               /\ user' = user
               /\ db' = db ]_vars

\* C6 witness: an is_locked_out call found the lockout expired and unlocked.
C6_Witness ==
    /\ call.op = "is_locked_out"
    /\ call.ret = "False"
    /\ call.saves = 1
    /\ Cleared(user)

\* C7 as stated: after reset_failed_login_attempts, and likewise after
\* unlock_account, from any state: failed_login_attempts == 0,
\* last_failed_login is None and account_status == ACTIVE.
C7_ResetAndUnlockClear ==
    call.op \in {"reset_failed_login_attempts", "unlock_account"}
        => Cleared(user)

\* C7 amended: after reset_failed_login_attempts from any state, and after
\* unlock_account from any LOCKED state, the counter is 0, last_failed_login
\* is None and account_status is ACTIVE (instance and row); after
\* unlock_account on an ACTIVE record account_status is ACTIVE and the
\* counter and last_failed_login keep their values.
C7_ResetClearsUnlockClearsLocked ==
    [][ /\ Called("reset_failed_login_attempts")
            => Cleared(user') /\ db' = user'
        /\ (Called("unlock_account") /\ user.account_status = LOCKED)
            => Cleared(user') /\ db' = user'
        /\ (Called("unlock_account") /\ user.account_status = ACTIVE)
            => /\ user'.account_status = ACTIVE
               /\ user'.failed_login_attempts = user.failed_login_attempts
               /\ user'.last_failed_login = user.last_failed_login ]_vars

\* C7 witness: unlock_account acted on a LOCKED record.
C7_Witness ==
    /\ call.op = "unlock_account"
    /\ call.saves = 1
    /\ Cleared(user)

\* C8: unlock_account on a record that is already ACTIVE changes no field,
\* writes nothing to the row and sends no e-mail.
C8_UnlockActiveIsNoOp ==
    [][ (Called("unlock_account") /\ user.account_status = ACTIVE) =>
          /\ user' = user
          /\ db' = db
          /\ call'.saves = 0
          /\ call'.mails = 0 ]_vars

\* C8 witness: unlock_account was called on an ACTIVE record that carries
\* counted failures.
C8_Witness ==
    /\ call.op = "unlock_account"
    /\ call.saves = 0
    /\ user.account_status = ACTIVE
    /\ user.failed_login_attempts > 0

\* C9: a failing verify_otp (the candidate differs from the stored otp, or it
\* matches after the expiry time) returns False, changes no field of the
\* record and persists nothing.
C9_FailedVerifyChangesNothing ==
    [][ ( /\ Called("verify_otp")
          /\ \/ call'.arg # user.otp
             \/ /\ user.otp_expiry_time # None
                /\ now > Value(user.otp_expiry_time) ) =>
          /\ call'.ret = "False"
          /\ user' = user
          /\ db' = db
          /\ call'.saves = 0 ]_vars

\* C9 witness: the stored code was presented after its expiry time and
\* refused, the OTP still stored.
C9_Witness ==
    /\ call.op = "verify_otp"
    /\ call.ret = "False"
    /\ call.arg = user.otp
    /\ user.otp_expiry_time # None
    /\ call.at > Value(user.otp_expiry_time)

\* C10: set_otp(code) succeeds in every state, stores the code with
\* otp_expiry_time = now + OTP_EXPIRY_TIME (instance and row) and leaves the
\* other fields alone; it overwrites a pending OTP: while the new code is
\* unused, verify_otp of the overwritten, different code returns False and
\* verify_otp of the new code within its own TTL returns True.
C10_SetOtpStoresAndOverwrites ==
    [][ /\ Called("set_otp") =>
            /\ call'.ret = "None"
            /\ user' = [user EXCEPT
                            !.otp = call'.arg,
                            !.otp_expiry_time = Some(now + OTP_EXPIRY_TIME)]
            /\ db' = user'
        /\ ( /\ Called("verify_otp")
             /\ issued # None
             /\ Value(issued).tries = 0 ) =>
            /\ ( /\ call'.arg = Value(issued).prior
                 /\ call'.arg # Some(Value(issued).otp) )
                => call'.ret = "False"
            /\ ( /\ call'.arg = Some(Value(issued).otp)
                 /\ now < Value(issued).at + OTP_EXPIRY_TIME )
                => call'.ret = "True" ]_vars

\* C10 witness: on a LOCKED account a pending code was overwritten by a
\* different one, and the new code was accepted.
C10_Witness ==
    /\ call.op = "verify_otp"
    /\ call.ret = "True"
    /\ user.account_status = LOCKED
    /\ issued # None
    /\ call.arg = Some(Value(issued).otp)
    /\ Value(issued).prior # None
    /\ ValidOtp(Value(Value(issued).prior))
    /\ Value(issued).prior # call.arg

\* C11: otp_expiry_time is set if and only if otp is non-empty and not yet
\* consumed (a consumed otp is the empty string, a never issued one None),
\* in every state reached through set_otp and verify_otp with any argument.
C11_ExpirySetIffOtpPending ==
    (user.otp_expiry_time # None) <=> (user.otp # None /\ user.otp # Some(""))

\* C12: account_status goes from ACTIVE to LOCKED only in a call of
\* handle_failed_login_attempts, and only when the incremented counter is at
\* least MAX_FAILED_LOGIN_ATTEMPTS (instance and row alike).
C12_LockedOnlyByFailureAtThreshold ==
    [][ /\ (user.account_status = ACTIVE /\ user'.account_status = LOCKED) =>
            /\ Called("handle_failed_login_attempts")
            /\ user'.failed_login_attempts = user.failed_login_attempts + 1
            /\ user'.failed_login_attempts >= MAX_FAILED_LOGIN_ATTEMPTS
        /\ (db.account_status = ACTIVE /\ db'.account_status = LOCKED) =>
            /\ Called("handle_failed_login_attempts")
            /\ db'.failed_login_attempts = db.failed_login_attempts + 1
            /\ db'.failed_login_attempts >= MAX_FAILED_LOGIN_ATTEMPTS ]_vars

\* C12 witness: the failure that reached the threshold locked the account.
C12_Witness ==
    /\ call.op = "handle_failed_login_attempts"
    /\ call.mails = 1
    /\ user.account_status = LOCKED
    /\ user.failed_login_attempts = MAX_FAILED_LOGIN_ATTEMPTS

\* C13: every step that takes account_status from LOCKED to ACTIVE is a call
\* of reset_failed_login_attempts, unlock_account or is_locked_out and leaves
\* failed_login_attempts at 0 in that step; the count of consecutive failures
\* restarts at 0 there, and the account is LOCKED again exactly when that
\* count has reached MAX_FAILED_LOGIN_ATTEMPTS.
C13_UnlockResetsCounter ==
    [][ /\ (user.account_status = LOCKED /\ user'.account_status = ACTIVE) =>
            /\ \/ Called("reset_failed_login_attempts")
               \/ Called("unlock_account")
               \/ Called("is_locked_out")
            /\ user'.failed_login_attempts = 0
            /\ db'.failed_login_attempts = 0
            /\ streak' = 0
        /\ streak' >= 0 =>
            (user'.account_status = LOCKED
                <=> streak' >= MAX_FAILED_LOGIN_ATTEMPTS) ]_vars

\* C13 witness: the lazy expiry inside is_locked_out unlocked the account and
\* the counter is 0.
C13_Witness ==
    /\ call.op = "is_locked_out"
    /\ call.ret = "False"
    /\ call.saves = 1
    /\ user.failed_login_attempts = 0
    /\ db.failed_login_attempts = 0
    /\ streak = 0

\* C14: lockout expiry is lazy: the passage of time changes no field of the
\* record; LOCKED becomes ACTIVE only in a call of is_locked_out,
\* unlock_account or reset_failed_login_attempts; and is_locked_out on an
\* ACTIVE record returns False, changes nothing and persists nothing.
C14_LazyExpiry ==
    [][ /\ now' # now => (user' = user /\ db' = db)
        /\ (user.account_status = LOCKED /\ user'.account_status # LOCKED) =>
            \/ Called("is_locked_out")
            \/ Called("unlock_account")
            \/ Called("reset_failed_login_attempts")
        /\ (Called("is_locked_out") /\ user.account_status = ACTIVE) =>
            /\ call'.ret = "False"
            /\ user' = user
            /\ db' = db
            /\ call'.saves = 0 ]_vars

\* C14 witness: the lockout duration has elapsed and the record, instance
\* and row, is still LOCKED with its counter.
C14_Witness ==
    /\ user.account_status = LOCKED
    /\ db.account_status = LOCKED
    /\ user.failed_login_attempts >= MAX_FAILED_LOGIN_ATTEMPTS
    /\ now - Value(user.last_failed_login) > LOCKOUT_DURATION

\* C18: sliding lockout window: handle_failed_login_attempts on a LOCKED
\* account (also after LOCKOUT_DURATION has elapsed, before any check) keeps
\* it LOCKED and sets last_failed_login to the time of the call, so that
\* is_locked_out on a LOCKED account returns False exactly when more than
\* LOCKOUT_DURATION has passed since the latest failure, not since the
\* failure that locked the account.
C18_SlidingLockoutWindow ==
    [][ /\ (Called("handle_failed_login_attempts")
                /\ user.account_status = LOCKED) =>
            /\ user'.account_status = LOCKED
            /\ user'.last_failed_login = Some(now)
            /\ db' = user'
        /\ (Called("is_locked_out") /\ user.account_status = LOCKED) =>
            (call'.ret = "False"
                <=> now - Value(lock).last > LOCKOUT_DURATION) ]_vars

\* C18 witness: is_locked_out still returns True although more than
\* LOCKOUT_DURATION has passed since the failure that locked the account.
C18_Witness ==
    /\ call.op = "is_locked_out"
    /\ call.ret = "True"
    /\ lock # None
    /\ call.at - Value(lock).at > LOCKOUT_DURATION

\* C19: in every reachable state, of the instance and of the row,
\* account_status is LOCKED if and only if failed_login_attempts >=
\* MAX_FAILED_LOGIN_ATTEMPTS, and failed_login_attempts is 0 if and only if
\* last_failed_login is None.
C19_StatusCounterStampAgree ==
    \A u \in {user, db} :
        /\ u.account_status = LOCKED
              <=> u.failed_login_attempts >= MAX_FAILED_LOGIN_ATTEMPTS
        /\ u.failed_login_attempts = 0 <=> u.last_failed_login = None

\* C19 witness: after a reset and one failure short of the threshold the
\* account is ACTIVE with its failures stamped.
C19_Witness ==
    /\ user.account_status = ACTIVE
    /\ user.failed_login_attempts = MAX_FAILED_LOGIN_ATTEMPTS - 1
    /\ user.last_failed_login # None
    /\ Value(user.last_failed_login) > LOCKOUT_DURATION

\* C20: lockout is never permanent: with no explicit unlock or reset, a
\* clock that keeps advancing and is_locked_out checked again and again, a
\* LOCKED account with the counter at n eventually is ACTIVE, unless a
\* further failure is counted (for every account locked early enough for the
\* bounded clock to pass last_failed_login + LOCKOUT_DURATION).
C20_LockoutNotPermanent ==
    \A n \in MAX_FAILED_LOGIN_ATTEMPTS..MaxAttempts :
        ( /\ user.account_status = LOCKED
          /\ user.failed_login_attempts = n
          /\ Value(user.last_failed_login) + LOCKOUT_DURATION < MaxTime )
        ~> ( \/ user.account_status = ACTIVE
             \/ user.failed_login_attempts > n )

\* C20 witness: without unlock_account or reset_failed_login_attempts, an
\* is_locked_out check at the last instant of the clock unlocked the account.
C20_Witness ==
    /\ call.op = "is_locked_out"
    /\ call.saves = 1
    /\ user.account_status = ACTIVE
    /\ db.account_status = ACTIVE
    /\ call.at = MaxTime

\* C15: no lost update under concurrency: when the requests made so far
\* only called handle_failed_login_attempts and none is under way, the
\* persisted failed_login_attempts equals the number of those calls, and the
\* lockout e-mail has been sent exactly once if the row is LOCKED and not at
\* all otherwise.
C15_NoLostUpdate ==
    (~tally.otpcalls /\ \A r \in Reqs : pc[r] = "idle") =>
        /\ db.failed_login_attempts = tally.calls
        /\ tally.mails = IF db.account_status = LOCKED THEN 1 ELSE 0

\* C16: the persisted row is never partially updated by
\* handle_failed_login_attempts: each of its steps, up to and including the
\* e-mail and the two save() calls around it, either leaves the row alone or
\* writes the instance with all of the call's assignments (counter, time
\* stamp and status), and when the call returns the row equals the instance,
\* locked or not.
C16_RowNeverPartiallyUpdated ==
    [][ \A r \in Reqs :
          /\ (pc[r] = "loaded" /\ pc'[r] \in {"notify", "save"}) =>
                /\ db' = db \/ db' = inst'[r]
                /\ pc'[r] = "notify" => db' = inst'[r]
                /\ inst'[r].failed_login_attempts
                       = inst[r].failed_login_attempts + 1
                /\ inst'[r].last_failed_login = Some(now)
                /\ inst'[r].account_status = LOCKED
                       <=> pc'[r] = "notify" \/ inst[r].account_status = LOCKED
          /\ (pc[r] = "notify" /\ pc'[r] = "save") =>
                (db' = db /\ inst'[r] = inst[r])
          /\ (pc[r] = "save" /\ pc'[r] = "idle") =>
                (db' = inst[r] /\ inst'[r] = inst[r]) ]_vars

\* C16 witness: a locking call is between its first save() and the e-mail,
\* and the row already holds the whole update.
C16_Witness ==
    \E r \in Reqs :
        /\ pc[r] = "notify"
        /\ db = inst[r]
        /\ db.account_status = LOCKED
        /\ db.failed_login_attempts = MAX_FAILED_LOGIN_ATTEMPTS

\* C17: at-most-once OTP acceptance under concurrency: of the verify_otp
\* calls made since the last set_otp at most one returns True, and once one
\* has, the row shows the OTP consumed (no later save() of a stale instance
\* restores it).
C17_OtpAcceptedAtMostOnce ==
    /\ tally.accepted <= 1
    /\ tally.accepted = 1 =>
          (db.otp = Some("") /\ db.otp_expiry_time = None)

\* C21: for every SCHOOL_NAME of one or more words, generate_username
\* returns a string of at most 15 characters.
C21_UsernameAtMost15 ==
    username # None => Len(Value(username)) <= 15

====
